---- MODULE Spec2Model ----
(***************************************************************************)
(* Conversational intake of the Zero Hunger backend: the /chat handler of  *)
(* backend/routers/ai.py (chat_with_ai), its field extractors, the storage *)
(* sink (store_in_supabase) and the notification sink                      *)
(* (trigger_fulfillment_notification).                                     *)
(*                                                                         *)
(* Texts are TLA+ strings; the extractors work on their characters the way *)
(* the regular expressions of the source do.  A Python Optional is a       *)
(* sequence of length 0 (None) or 1 (the value).                           *)
(***************************************************************************)
EXTENDS Integers, Sequences, FiniteSets, TLC

---------------------------------------------------------------------------
(* Python values *)

None == <<>>
Some(v) == <<v>>
Val(o) == o[1]

---------------------------------------------------------------------------
(* Characters and the str methods the handler uses *)

UpperAlpha == "ABCDEFGHIJKLMNOPQRSTUVWXYZ"
LowerAlpha == "abcdefghijklmnopqrstuvwxyz"
Digits == "0123456789"

\* the character of s at position i, "" outside the text
Char(s, i) == IF i >= 1 /\ i <= Len(s) THEN SubSeq(s, i, i) ELSE ""

\* s[i:] of Python, for a 1-based i
From(s, i) == SubSeq(s, i, Len(s))

UpperLetters == {Char(UpperAlpha, k) : k \in 1..26}
LowerLetters == {Char(LowerAlpha, k) : k \in 1..26}
DigitChars == {Char(Digits, k) : k \in 1..10}
WordChars == UpperLetters \cup LowerLetters \cup DigitChars \cup {"_"}

\* str.lower() on one character, and the value of a digit
LowerOf == [c \in UpperLetters |-> Char(LowerAlpha, CHOOSE k \in 1..26 : Char(UpperAlpha, k) = c)]
DigitValue == [c \in DigitChars |-> (CHOOSE k \in 1..10 : Char(Digits, k) = c) - 1]

IsDigit(c) == c \in DigitChars
IsLetter(c) == c \in UpperLetters \/ c \in LowerLetters
IsSpace(c) == c \in {" ", "\t", "\n", "\r"}
\* \w of the re module
IsWord(c) == c \in WordChars

LowerChar(c) == IF c \in UpperLetters THEN LowerOf[c] ELSE c

RECURSIVE lower(_)
lower(s) == IF s = "" THEN "" ELSE LowerChar(Char(s, 1)) \o lower(Tail(s))

RECURSIVE lstrip(_)
lstrip(s) == IF s # "" /\ IsSpace(Char(s, 1)) THEN lstrip(Tail(s)) ELSE s

RECURSIVE rstrip(_)
rstrip(s) ==
    IF s # "" /\ IsSpace(Char(s, Len(s))) THEN rstrip(SubSeq(s, 1, Len(s) - 1)) ELSE s

strip(s) == rstrip(lstrip(s))

\* int() of a text of digits
RECURSIVE int(_)
int(s) ==
    IF s = "" THEN 0
    ELSE 10 * int(SubSeq(s, 1, Len(s) - 1)) + DigitValue[Char(s, Len(s))]

\* number of whitespace-separated words: len(text.split())
RECURSIVE WordsFrom(_, _)
WordsFrom(s, i) ==
    IF i > Len(s) THEN 0
    ELSE IF ~IsSpace(Char(s, i)) /\ (i = 1 \/ IsSpace(Char(s, i - 1)))
         THEN 1 + WordsFrom(s, i + 1)
         ELSE WordsFrom(s, i + 1)

split_len(s) == WordsFrom(s, 1)

\* text.replace(" ", "").isalpha()
isalpha_without_blanks(s) ==
    /\ \E i \in 1..Len(s) : Char(s, i) # " "
    /\ \A i \in 1..Len(s) : Char(s, i) = " " \/ IsLetter(Char(s, i))

---------------------------------------------------------------------------
(* Pieces of the regular expressions *)

\* length of the longest run of characters of one class starting at i
RECURSIVE DigitRun(_, _)
DigitRun(s, i) == IF IsDigit(Char(s, i)) THEN 1 + DigitRun(s, i + 1) ELSE 0

RECURSIVE LetterRun(_, _)
LetterRun(s, i) == IF IsLetter(Char(s, i)) THEN 1 + LetterRun(s, i + 1) ELSE 0

RECURSIVE SpaceRun(_, _)
SpaceRun(s, i) == IF IsSpace(Char(s, i)) THEN 1 + SpaceRun(s, i + 1) ELSE 0

\* the literal lit (lower case) is at position i of s, case ignored
LiteralAt(s, i, lit) ==
    /\ i + Len(lit) - 1 <= Len(s)
    /\ lower(SubSeq(s, i, i + Len(lit) - 1)) = lit

\* \b at position i: between the characters i-1 and i exactly one is a \w
Boundary(s, i) == IsWord(Char(s, i - 1)) # IsWord(Char(s, i))

\* $ at position i: the end of the text, or just before a final newline
AtEnd(s, i) == i = Len(s) + 1 \/ (i = Len(s) /\ Char(s, i) = "\n")

\* the least position in lo..Len(s) at which Match holds, 0 when there is none
RECURSIVE Search(_, _, _)
Search(Match(_, _), s, lo) ==
    IF lo > Len(s) THEN 0
    ELSE IF Match(s, lo) THEN lo
    ELSE Search(Match, s, lo + 1)

---------------------------------------------------------------------------
(* extract_name *)

\* the alternatives of (?:i'?m|i am|my name is|name is|called|this is)
NamePrefixes == {"i'm", "im", "i am", "my name is", "name is", "called", "this is"}

\* [A-Z][a-z]+ under re.IGNORECASE at position g: two letters or more
NameWordAt(s, g) == LetterRun(s, g) >= 2

\* last position of ([A-Z][a-z]+(?:\s+[A-Z][a-z]+)?) matched greedily from g
NameGroupEnd(s, g) ==
    LET e1 == g + LetterRun(s, g)
        sp == SpaceRun(s, e1)
    IN  IF sp >= 1 /\ NameWordAt(s, e1 + sp)
        THEN e1 + sp + LetterRun(s, e1 + sp) - 1
        ELSE e1 - 1

\* prefix p, then \s+, then a name word, all starting at position i
NamePrefixAt(s, i, p) ==
    /\ LiteralAt(s, i, p)
    /\ SpaceRun(s, i + Len(p)) >= 1
    /\ NameWordAt(s, i + Len(p) + SpaceRun(s, i + Len(p)))

NamePattern1At(s, i) == \E p \in NamePrefixes : NamePrefixAt(s, i, p)

\* group(1) of the first pattern for the match that starts at i
NamePattern1Group(s, i) ==
    LET p == CHOOSE q \in NamePrefixes : NamePrefixAt(s, i, q)
        g == i + Len(p) + SpaceRun(s, i + Len(p))
    IN  SubSeq(s, g, NameGroupEnd(s, g))

\* ^([A-Z][a-z]+(?:\s+[A-Z][a-z]+)?)$ : one or two name words and nothing else
NamePattern2(s) ==
    /\ NameWordAt(s, 1)
    /\ LET e1 == 1 + LetterRun(s, 1)
           sp == SpaceRun(s, e1)
       IN  \/ AtEnd(s, e1)
           \/ /\ sp >= 1
              /\ NameWordAt(s, e1 + sp)
              /\ AtEnd(s, e1 + sp + LetterRun(s, e1 + sp))

NamePattern2Group(s) ==
    LET e1 == 1 + LetterRun(s, 1)
    IN  IF AtEnd(s, e1) THEN SubSeq(s, 1, e1 - 1) ELSE SubSeq(s, 1, NameGroupEnd(s, 1))

extract_name(text) ==
    LET i1 == Search(NamePattern1At, text, 1)
    IN  IF i1 > 0 THEN Some(strip(NamePattern1Group(text, i1)))
        ELSE IF NamePattern2(text) THEN Some(strip(NamePattern2Group(text)))
        ELSE IF split_len(text) <= 3 /\ isalpha_without_blanks(text) THEN Some(strip(text))
        ELSE None

---------------------------------------------------------------------------
(* extract_age *)

MinAge == 1
MaxAge == 120
DefaultAge == 25

InAgeRange(n) == MinAge <= n /\ n <= MaxAge

\* the alternatives of (?:i am|age is|i'?m|years old|year old)
AgePrefixes == {"i am", "age is", "i'm", "im", "years old", "year old"}

\* the alternatives of (?:years?|yrs?|old)?, the empty one included
AgeUnits == {"years", "year", "yrs", "yr", "old", ""}

Min(a, b) == IF a < b THEN a ELSE b

\* (\d{1,3}) matched greedily at g with nothing required after it
AgeDigits(s, g) == SubSeq(s, g, g + Min(DigitRun(s, g), 3) - 1)

AgePrefixAt(s, i, p) ==
    /\ LiteralAt(s, i, p)
    /\ SpaceRun(s, i + Len(p)) >= 1
    /\ IsDigit(Char(s, i + Len(p) + SpaceRun(s, i + Len(p))))

AgePattern1At(s, i) == \E p \in AgePrefixes : AgePrefixAt(s, i, p)

AgePattern1Group(s, i) ==
    LET p == CHOOSE q \in AgePrefixes : AgePrefixAt(s, i, q)
    IN  AgeDigits(s, i + Len(p) + SpaceRun(s, i + Len(p)))

\* \s*(?:years?|yrs?|old)?\b can be matched from position p
AgeTailAt(s, p) ==
    \E j \in 0..SpaceRun(s, p), u \in AgeUnits :
        LiteralAt(s, p + j, u) /\ Boundary(s, p + j + Len(u))

\* the digit counts k for which \b(\d{1,3})\s*(?:years?|yrs?|old)?\b matches at i
AgePattern2Counts(s, i) ==
    {k \in 1..Min(DigitRun(s, i), 3) : Boundary(s, i) /\ AgeTailAt(s, i + k)}

AgePattern2At(s, i) == AgePattern2Counts(s, i) # {}

\* \d{1,3} is greedy: the match keeps the largest count that lets the rest match
AgePattern2Group(s, i) ==
    LET k == CHOOSE m \in AgePattern2Counts(s, i) : \A n \in AgePattern2Counts(s, i) : n <= m
    IN  SubSeq(s, i, i + k - 1)

\* ^(\d{1,3})$
AgePattern3(s) == DigitRun(s, 1) \in 1..3 /\ AtEnd(s, 1 + DigitRun(s, 1))

AgePattern3Group(s) == SubSeq(s, 1, DigitRun(s, 1))

\* the candidates of the three patterns, in the order they are tried; a
\* pattern that does not match contributes none
AgeCandidates(text) ==
    LET i1 == Search(AgePattern1At, text, 1)
        i2 == Search(AgePattern2At, text, 1)
    IN  (IF i1 > 0 THEN <<int(AgePattern1Group(text, i1))>> ELSE <<>>)
        \o (IF i2 > 0 THEN <<int(AgePattern2Group(text, i2))>> ELSE <<>>)
        \o (IF AgePattern3(text) THEN <<int(AgePattern3Group(text))>> ELSE <<>>)

\* mutant: a first match out of range ends the search
FirstMatchOnly(cands) ==
    IF cands = <<>> THEN None
    ELSE IF InAgeRange(Head(cands)) THEN Some(Head(cands))
    ELSE None

\* first element of a sequence of numbers that is a valid age
RECURSIVE FirstInRange(_)
FirstInRange(cands) ==
    IF cands = <<>> THEN None
    ELSE IF InAgeRange(Head(cands)) THEN Some(Head(cands))
    ELSE FirstInRange(Tail(cands))

extract_age(text) == FirstInRange(AgeCandidates(text))

\* re.findall(r'\d+', text)[0] as a text, "" when the text has no digit
FirstNumber(text) ==
    LET i == Search(LAMBDA s, k : IsDigit(Char(s, k)), text, 1)
    IN  IF i = 0 THEN "" ELSE SubSeq(text, i, i + DigitRun(text, i) - 1)

---------------------------------------------------------------------------
(* Bounds of the model *)

\* number of messages that change a session in one run, all sessions
\* together; no request is sent once the sessions have advanced that far
MaxProgress == 6

\* session identifiers: the ones clients send and the ones uuid4 can return
SessionIds == {"s1", "s2"}

\* message texts the clients send, as they arrive in ChatRequest.message
Messages ==
    { "", "  ", "I am John 200", "I am 45 years old", " a45 " }

\* the conversation of the walk-through, message by message
Script ==
    << "", "I need help", "John", "not a number", "not a number", "Lagos", "rice and beans" >>

\* message texts of the conversations held with both variants
GraphMessages ==
    { "John", "I need help", "tomorrow", "I am John 45 years old in Lagos" }

\* message texts of the runs of the workflow followed node by node: the
\* ones above and two that hold keywords of more than one intent
RunMessages == GraphMessages \cup { "Help me plan ASAP", "Support me Tomorrow" }

AllMessages == Messages \cup {Script[k] : k \in 1..Len(Script)} \cup GraphMessages

\* user_msg_original and user_msg of the handler for each message:
\* (message or "").strip() and user_msg_original.lower().strip()
user_msg_original_of == [m \in AllMessages |-> strip(m)]
user_msg_of == [m \in AllMessages |-> strip(lower(strip(m)))]

\* the extractors on the texts the handler passes to them, evaluated once
NameOf == [t \in {user_msg_original_of[m] : m \in AllMessages} |-> extract_name(t)]
AgeOf == [t \in {user_msg_of[m] : m \in AllMessages} |-> extract_age(t)]
NumbersOf == [t \in {user_msg_of[m] : m \in AllMessages} |-> FirstNumber(t)]

\* results of supabase.table(...).insert(...).execute(): a record came back,
\* no record came back, or the call raised
InsertOutcomes == {"data", "nodata", "raise"}

\* results of client.post(...) followed by raise_for_status()
PostOutcomes == {"ok", "error"}

---------------------------------------------------------------------------
(* State *)

VARIABLES
    sessions,   \* routers/ai.py sessions: session_id -> session dict
    supabase,   \* supabase_client.supabase is a client (TRUE) or None (FALSE)
    FULFILLMENT_WEBHOOK_URL,  \* fulfillment.py: the URL is set (TRUE) or not
    sinkLog,    \* the calls made to the two sinks, in order
    awaiting,   \* handlers suspended in "await client.post(...)"
    last,       \* the step taken last: the request, the session before, the reply
    script,     \* walk-through only: messages of Script sent so far, per session
    graphs      \* langgraph_workflow.py: session_id -> ConversationState of the workflow

vars == <<sessions, supabase, FULFILLMENT_WEBHOOK_URL, sinkLog, awaiting, last, script, graphs>>

Steps ==
    <<"start", "asking_name", "asking_age", "asking_location",
      "asking_food_requirement", "completed">>

\* position of a step in the order of the conversation (0 for an unknown one)
StepRank(step) ==
    IF \E k \in 1..Len(Steps) : Steps[k] = step
    THEN CHOOSE k \in 1..Len(Steps) : Steps[k] = step
    ELSE 0

\* the dict stored for a new session (_age_attempts is not a key yet)
NewSession ==
    [ step |-> "start", person_name |-> None, age |-> None, location |-> None,
      food_requirement |-> None, assistance_type |-> "immediate",
      age_attempts |-> None ]

\* Python truthiness of an Optional[str]: neither None nor ""
Truthy(o) == o # None /\ Val(o) # ""

---------------------------------------------------------------------------
(* Replies (pictographs of the source texts left out) *)

GreetingReply == "Hello! I'm your AI food assistance helper. I'm here to help you get free food within 10 minutes. How can I assist you today?"
AskNameReply == "Hello! I'm here to help you get food assistance. To proceed, I need a few details. Could you please tell me your name?"
GenericPromptReply == "I'm here to help with food assistance. Please let me know if you need food."
AskAgeReply(name) == "Thank you, " \o name \o "! Could you please tell me your age?"
AskLocationReply == "Thank you! Could you please tell me your location or area where you need the food delivered?"
RepromptAgeReply == "I need to know your age. Could you please tell me how old you are? (e.g., 25)"
AskFoodReply == "Great! Could you please tell me what kind of food you need or any specific requirements?"
MissingInfoReply == "I'm sorry, some information is missing. Please start a new conversation."
ConfirmationReply(name) == "Thank you " \o name \o "! Your food assistance request has been confirmed. We're coordinating with our partners to ensure you receive food within 10 minutes. You will receive a confirmation shortly."
SavedSuffix == " Your request has been saved in our system."
DegradedSuffix == " Note: There was an issue saving your request. Please contact support."
AlreadyProcessedReply == "Your request has already been processed. If you need another food assistance request, please start a new conversation."
RecoverReply == "I'm here to help you get food assistance. Could you please tell me your name?"

\* what one branch of the handler leaves behind: the session, the reply
\* (None while the handler is suspended), the sink calls it made
Result(session, reply, calls, suspended) ==
    [session |-> session, reply |-> reply, calls |-> calls, suspended |-> suspended]

---------------------------------------------------------------------------
(* The sinks *)

\* mutant: the record is built without the identifier of the session
Record_unknown_id(session, session_id) ==
    [ person_name |-> session.person_name, age |-> session.age,
      location |-> session.location, food_requirement |-> session.food_requirement,
      assistance_type |-> session.assistance_type, session_id |-> "unknown" ]

\* the row / payload built from a session
Record(session, session_id) ==
    [ person_name |-> session.person_name, age |-> session.age,
      location |-> session.location, food_requirement |-> session.food_requirement,
      assistance_type |-> session.assistance_type, session_id |-> session_id ]

\* store_in_supabase: what the call does ("unconfigured", "missing": no
\* insert is attempted; otherwise the outcome of the insert)
StoreResult(session_data, insert) ==
    IF ~supabase THEN "unconfigured"
    ELSE IF \/ ~Truthy(session_data.person_name)
            \/ session_data.age = None \/ Val(session_data.age) = 0
            \/ ~Truthy(session_data.location)
         THEN "missing"
    ELSE insert

\* the value store_in_supabase returns
store_in_supabase(session_data, insert) == StoreResult(session_data, insert) = "data"

StoreCall(session_data, session_id, insert) ==
    [ sink |-> "storage", session_id |-> session_id,
      record |-> Record(session_data, session_id),
      result |-> StoreResult(session_data, insert) ]

\* trigger_fulfillment_notification up to its first suspension: with a
\* webhook URL the POST is sent and the handler waits for it, without one
\* the payload is only logged and True is returned at once
NotifyCall(fulfillment_data) ==
    [ sink |-> "notification", session_id |-> fulfillment_data.session_id,
      record |-> fulfillment_data,
      result |-> IF FULFILLMENT_WEBHOOK_URL THEN "posted" ELSE "logged" ]

\* the value trigger_fulfillment_notification returns once the POST is over
trigger_fulfillment_notification(post) == post = "ok"

---------------------------------------------------------------------------
(* chat_with_ai, one branch per step *)

\* mutant: the first message is taken for the name when it holds one
on_start_takes_name(session, user_msg_original) ==
    IF user_msg_original # "" /\ Len(strip(user_msg_original)) > 0
    THEN Result([session EXCEPT !.step = "asking_name",
                                !.person_name = NameOf[user_msg_original]],
                Some(AskNameReply), <<>>, FALSE)
    ELSE Result(session, Some(GenericPromptReply), <<>>, FALSE)

on_start(session, user_msg_original) ==
    IF user_msg_original # "" /\ Len(strip(user_msg_original)) > 0
    THEN Result([session EXCEPT !.step = "asking_name"], Some(AskNameReply), <<>>, FALSE)
    ELSE Result(session, Some(GenericPromptReply), <<>>, FALSE)

\* mutant: the name is stored in lower case
on_asking_name_lowercased(session, user_msg_original) ==
    LET name == NameOf[user_msg_original]
        person_name ==
            IF user_msg_original # "" /\ Len(strip(user_msg_original)) > 0
            THEN IF Truthy(name) THEN lower(Val(name)) ELSE lower(strip(user_msg_original))
            ELSE "User"
    IN  Result([session EXCEPT !.person_name = Some(person_name), !.step = "asking_age"],
               Some(AskAgeReply(person_name)), <<>>, FALSE)

\* mutant: an empty message is stored as the name
on_asking_name_keeps_empty(session, user_msg_original) ==
    LET name == NameOf[user_msg_original]
        person_name == IF Truthy(name) THEN Val(name) ELSE strip(user_msg_original)
    IN  Result([session EXCEPT !.person_name = Some(person_name), !.step = "asking_age"],
               Some(AskAgeReply(person_name)), <<>>, FALSE)

on_asking_name(session, user_msg_original) ==
    LET name == NameOf[user_msg_original]  \* extract_name(user_msg_original)
        person_name ==
            IF user_msg_original # "" /\ Len(strip(user_msg_original)) > 0
            THEN IF Truthy(name) THEN Val(name) ELSE strip(user_msg_original)
            ELSE "User"
    IN  Result([session EXCEPT !.person_name = Some(person_name), !.step = "asking_age"],
               Some(AskAgeReply(person_name)), <<>>, FALSE)

\* mutant: when the attempts are used up the conversation starts over
on_age_failure_restart(session, numbers) ==
    LET attempts == (IF session.age_attempts = None THEN 0 ELSE Val(session.age_attempts)) + 1
        counted == [session EXCEPT !.age_attempts = Some(attempts)]
    IN  IF attempts >= 2
        THEN Result([counted EXCEPT !.step = "start"], Some(AskNameReply), <<>>, FALSE)
        ELSE Result(counted, Some(RepromptAgeReply), <<>>, FALSE)

\* mutant: the default is forced after three failed attempts, not two
on_age_failure_three_attempts(session, numbers) ==
    LET attempts == (IF session.age_attempts = None THEN 0 ELSE Val(session.age_attempts)) + 1
        counted == [session EXCEPT !.age_attempts = Some(attempts)]
    IN  IF attempts >= 3
        THEN Result([counted EXCEPT
                        !.age = IF numbers # "" /\ InAgeRange(int(numbers))
                                THEN Some(int(numbers)) ELSE Some(DefaultAge),
                        !.step = "asking_location"],
                    Some(AskLocationReply), <<>>, FALSE)
        ELSE Result(counted, Some(RepromptAgeReply), <<>>, FALSE)

\* mutant: after the second failure the first number is taken as it is
on_age_failure_unchecked(session, numbers) ==
    LET attempts == (IF session.age_attempts = None THEN 0 ELSE Val(session.age_attempts)) + 1
        counted == [session EXCEPT !.age_attempts = Some(attempts)]
    IN  IF attempts >= 2
        THEN Result([counted EXCEPT
                        !.age = IF numbers # "" THEN Some(int(numbers)) ELSE Some(DefaultAge),
                        !.step = "asking_location"],
                    Some(AskLocationReply), <<>>, FALSE)
        ELSE Result(counted, Some(RepromptAgeReply), <<>>, FALSE)

\* the branch taken when extract_age found nothing and the first number of
\* the message is no valid age either
on_age_failure(session, numbers) ==
    LET attempts == (IF session.age_attempts = None THEN 0 ELSE Val(session.age_attempts)) + 1
        counted == [session EXCEPT !.age_attempts = Some(attempts)]
    IN  IF attempts >= 2
        THEN Result([counted EXCEPT
                        !.age = IF numbers # "" /\ InAgeRange(int(numbers))
                                THEN Some(int(numbers)) ELSE Some(DefaultAge),
                        !.step = "asking_location"],
                    Some(AskLocationReply), <<>>, FALSE)
        ELSE Result(counted, Some(RepromptAgeReply), <<>>, FALSE)

on_asking_age(session, user_msg) ==
    LET age == AgeOf[user_msg]  \* extract_age(user_msg)
        numbers == NumbersOf[user_msg]  \* re.findall(r'\d+', user_msg)
    IN  IF age # None
        THEN Result([session EXCEPT !.age = age, !.step = "asking_location"],
                    Some(AskLocationReply), <<>>, FALSE)
        ELSE IF numbers # "" /\ InAgeRange(int(numbers))
        THEN Result([session EXCEPT !.age = Some(int(numbers)), !.step = "asking_location"],
                    Some(AskLocationReply), <<>>, FALSE)
        ELSE on_age_failure(session, numbers)

\* mutant: an empty message is asked again instead of defaulted
on_asking_location_reprompts(session, user_msg_original) ==
    IF user_msg_original # "" /\ Len(strip(user_msg_original)) > 0
    THEN Result([session EXCEPT !.location = Some(strip(user_msg_original)),
                                !.step = "asking_food_requirement"],
                Some(AskFoodReply), <<>>, FALSE)
    ELSE Result(session, Some(AskLocationReply), <<>>, FALSE)

\* mutant: the message is stored as it is, empty or not
on_asking_location_stores_empty(session, user_msg_original) ==
    Result([session EXCEPT !.location = Some(strip(user_msg_original)),
                           !.step = "asking_food_requirement"],
           Some(AskFoodReply), <<>>, FALSE)

on_asking_location(session, user_msg_original) ==
    IF user_msg_original # "" /\ Len(strip(user_msg_original)) > 0
    THEN Result([session EXCEPT !.location = Some(strip(user_msg_original)),
                                !.step = "asking_food_requirement"],
                Some(AskFoodReply), <<>>, FALSE)
    ELSE Result([session EXCEPT !.location = Some("Not specified"),
                                !.step = "asking_food_requirement"],
                Some(AskFoodReply), <<>>, FALSE)

\* mutant: the reply claims the request was saved whatever storage did
completion_reply_always_saved(session, stored) ==
    ConfirmationReply(Val(session.person_name)) \o SavedSuffix

\* the reply built after the sinks have been dealt with
completion_reply(session, stored) ==
    ConfirmationReply(Val(session.person_name))
        \o (IF stored THEN SavedSuffix ELSE DegradedSuffix)

\* mutant: the notification is sent whether or not the record was stored
dispatch_always_notifies(session, session_id, insert) ==
    LET stored == store_in_supabase(session, insert)
        calls == <<StoreCall(session, session_id, insert),
                   NotifyCall(Record(session, session_id))>>
    IN  IF FULFILLMENT_WEBHOOK_URL
        THEN Result(session, None, calls, TRUE)
        ELSE Result(session, Some(completion_reply(session, stored)), calls, FALSE)

\* the dispatch: storage first, the notification only if it was stored
dispatch(session, session_id, insert) ==
    LET stored == store_in_supabase(session, insert)
        calls == <<StoreCall(session, session_id, insert)>>
                    \o (IF stored THEN <<NotifyCall(Record(session, session_id))>> ELSE <<>>)
    IN  IF stored /\ FULFILLMENT_WEBHOOK_URL
        THEN Result(session, None, calls, TRUE)
        ELSE Result(session, Some(completion_reply(session, stored)), calls, FALSE)

\* mutant: the step is not set to completed before the dispatch
on_asking_food_requirement_stays(session, session_id, user_msg_original, insert) ==
    LET done == [session EXCEPT
                    !.food_requirement =
                        Some(IF user_msg_original # "" THEN user_msg_original
                             ELSE "General food assistance")]
    IN  IF ~Truthy(done.person_name) \/ done.age = None \/ ~Truthy(done.location)
        THEN Result(done, Some(MissingInfoReply), <<>>, FALSE)
        ELSE dispatch(done, session_id, insert)

\* mutant: the step is set to completed after the await of the notification
on_asking_food_requirement_completes_late(session, session_id, user_msg_original, insert) ==
    LET done == [session EXCEPT
                    !.food_requirement =
                        Some(IF user_msg_original # "" THEN user_msg_original
                             ELSE "General food assistance"),
                    !.step = "completed"]
        r == dispatch(done, session_id, insert)
    IN  IF ~Truthy(done.person_name) \/ done.age = None \/ ~Truthy(done.location)
        THEN Result(done, Some(MissingInfoReply), <<>>, FALSE)
        ELSE IF r.suspended
        THEN [r EXCEPT !.session = [done EXCEPT !.step = "asking_food_requirement"]]
        ELSE r

on_asking_food_requirement(session, session_id, user_msg_original, insert) ==
    LET done == [session EXCEPT
                    !.food_requirement =
                        Some(IF user_msg_original # "" THEN user_msg_original
                             ELSE "General food assistance"),
                    !.step = "completed"]
    IN  IF ~Truthy(done.person_name) \/ done.age = None \/ ~Truthy(done.location)
        THEN Result(done, Some(MissingInfoReply), <<>>, FALSE)
        ELSE dispatch(done, session_id, insert)

\* mutant: a completed session starts a new conversation
on_completed_restart(session) ==
    Result([session EXCEPT !.step = "asking_name"], Some(AskNameReply), <<>>, FALSE)

on_completed(session) == Result(session, Some(AlreadyProcessedReply), <<>>, FALSE)

\* mutant: the recovery starts the session over and drops what was collected
on_unknown_step_resets(session) ==
    Result([NewSession EXCEPT !.step = "asking_name"], Some(RecoverReply), <<>>, FALSE)

on_unknown_step(session) ==
    Result([session EXCEPT !.step = "asking_name"], Some(RecoverReply), <<>>, FALSE)

\* the if/elif chain on session["step"]
process_step(session, session_id, user_msg_original, user_msg, insert) ==
    CASE session.step = "start" -> on_start(session, user_msg_original)
      [] session.step = "asking_name" -> on_asking_name(session, user_msg_original)
      [] session.step = "asking_age" -> on_asking_age(session, user_msg)
      [] session.step = "asking_location" -> on_asking_location(session, user_msg_original)
      [] session.step = "asking_food_requirement" ->
            on_asking_food_requirement(session, session_id, user_msg_original, insert)
      [] session.step = "completed" -> on_completed(session)
      [] OTHER -> on_unknown_step(session)

\* mutant: the stored session is not looked up, every request starts afresh
handle_forgets_session(store, session_id, user_msg_original, user_msg, insert) ==
    IF user_msg_original = ""
    THEN Result(NewSession, Some(GreetingReply), <<>>, FALSE)
    ELSE process_step(NewSession, session_id, user_msg_original, user_msg, insert)

\* a session that does not exist yet and gets an empty first message is
\* created and greeted without going through the steps
handle(store, session_id, user_msg_original, user_msg, insert) ==
    IF session_id \notin DOMAIN store /\ user_msg_original = ""
    THEN Result(NewSession, Some(GreetingReply), <<>>, FALSE)
    ELSE process_step(IF session_id \in DOMAIN store THEN store[session_id] ELSE NewSession,
                      session_id, user_msg_original, user_msg, insert)

---------------------------------------------------------------------------
(* Actions *)

NoStep ==
    [ kind |-> "none", message |-> "", sent_id |-> None, session_id |-> "",
      before |-> None, reply |-> None, calls |-> 0 ]

Init ==
    /\ sessions = <<>>
    /\ supabase \in BOOLEAN
    /\ FULFILLMENT_WEBHOOK_URL \in BOOLEAN
    /\ sinkLog = <<>>
    /\ awaiting = {}
    /\ last = NoStep
    /\ script = [id \in SessionIds |-> 0]
    /\ graphs = <<>>

\* mutant: the store is replaced by one that holds this session only
Put_alone(store, session_id, session) ==
    [id \in {session_id} |-> session]

\* the dict after sessions[session_id] = session
Put(store, session_id, session) ==
    [id \in DOMAIN store \cup {session_id} |->
        IF id = session_id THEN session ELSE store[id]]

\* how far the sessions have advanced: the steps left behind, and one more
\* for a session whose first attempt at the age failed, summed over the sessions
RECURSIVE ProgressOf(_, _)
ProgressOf(store, ids) ==
    IF ids = {} THEN 0
    ELSE LET id == CHOOSE x \in ids : TRUE
             s == store[id]
         IN  (StepRank(s.step) - 1)
             + (IF s.age_attempts = None THEN 0 ELSE 1)
             + ProgressOf(store, ids \ {id})

Progress(store) == ProgressOf(store, DOMAIN store)

\* the insert is executed only by a request that finds its session in
\* asking_food_requirement with a storage client configured
Inserts(sent_id) ==
    IF /\ supabase
       /\ Truthy(sent_id)
       /\ Val(sent_id) \in DOMAIN sessions
       /\ sessions[Val(sent_id)].step = "asking_food_requirement"
    THEN InsertOutcomes ELSE {"not executed"}

\* POST /chat with ChatRequest(message, session_id = sent_id), run up to the
\* return of the response or to the suspension in the webhook POST.  A
\* request without session_id gets an identifier uuid4 has not given out.
Chat(sent_id, message, insert) ==
    /\ \E session_id \in (IF Truthy(sent_id) THEN {Val(sent_id)}
                          ELSE SessionIds \ DOMAIN sessions) :
          LET user_msg_original == user_msg_original_of[message]
              user_msg == user_msg_of[message]
              r == handle(sessions, session_id, user_msg_original, user_msg, insert)
          IN  /\ sessions' = Put(sessions, session_id, r.session)
              /\ sinkLog' = sinkLog \o r.calls
              /\ awaiting' = IF r.suspended THEN awaiting \cup {session_id} ELSE awaiting
              /\ last' = [ kind |-> "request", message |-> message, sent_id |-> sent_id,
                           session_id |-> session_id,
                           before |-> IF session_id \in DOMAIN sessions
                                      THEN Some(sessions[session_id]) ELSE None,
                           reply |-> r.reply, calls |-> Len(r.calls) ]
    /\ UNCHANGED <<supabase, FULFILLMENT_WEBHOOK_URL>>

\* the webhook POST of a suspended handler is over (post: how it ended);
\* the handler resumes after "await trigger_fulfillment_notification" with
\* stored = True and returns the confirmation
NotificationReturns(session_id, post) ==
    /\ session_id \in awaiting
    /\ awaiting' = awaiting \ {session_id}
    /\ sinkLog' = Append(sinkLog,
            [ sink |-> "notification_result", session_id |-> session_id,
              record |-> Record(sessions[session_id], session_id),
              result |-> IF trigger_fulfillment_notification(post) THEN "sent" ELSE "failed" ])
    /\ last' = [ kind |-> "resume", message |-> "", sent_id |-> Some(session_id),
                 session_id |-> session_id, before |-> Some(sessions[session_id]),
                 reply |-> Some(completion_reply(sessions[session_id], TRUE)), calls |-> 0 ]
    /\ UNCHANGED <<sessions, supabase, FULFILLMENT_WEBHOOK_URL>>

\* clients that send any message of Messages to any session, or start a
\* conversation without a session_id
Next ==
    \/ \E sent_id \in {None} \cup {Some(id) : id \in SessionIds}, message \in Messages :
          \E insert \in Inserts(sent_id) :
            /\ Progress(sessions) < MaxProgress
            /\ Chat(sent_id, message, insert)
            /\ UNCHANGED <<script, graphs>>
    \/ \E session_id \in SessionIds, post \in PostOutcomes :
            NotificationReturns(session_id, post) /\ UNCHANGED <<script, graphs>>

Spec == Init /\ [][Next]_vars

\* clients that follow the walk-through: a conversation starts without a
\* session_id and goes on with the session_id of the response, one message
\* of Script after the other
ScriptNext ==
    \/ \E insert \in InsertOutcomes :
          /\ Chat(None, Script[1], insert)
          /\ script' = [script EXCEPT ![last'.session_id] = 1]
          /\ UNCHANGED graphs
    \/ \E id \in DOMAIN sessions, insert \in InsertOutcomes :
          /\ script[id] < Len(Script)
          /\ Chat(Some(id), Script[script[id] + 1], insert)
          /\ script' = [script EXCEPT ![id] = @ + 1]
          /\ UNCHANGED graphs
    \/ \E session_id \in SessionIds, post \in PostOutcomes :
            NotificationReturns(session_id, post) /\ UNCHANGED <<script, graphs>>

ScriptSpec == Init /\ [][ScriptNext]_vars

\* one client holding one conversation for ever: the first request carries
\* no session_id, the later ones the session_id of the response; requests
\* keep coming and are handled, and a webhook POST terminates
LiveNext ==
    \/ \E message \in Messages :
          /\ sessions = <<>>
          /\ Chat(None, message, "not executed")
          /\ UNCHANGED <<script, graphs>>
    \/ \E id \in DOMAIN sessions, message \in Messages :
          \E insert \in Inserts(Some(id)) :
            Chat(Some(id), message, insert) /\ UNCHANGED <<script, graphs>>
    \/ \E session_id \in SessionIds, post \in PostOutcomes :
            NotificationReturns(session_id, post) /\ UNCHANGED <<script, graphs>>

LiveSpec == Init /\ [][LiveNext]_vars /\ WF_vars(LiveNext)

---------------------------------------------------------------------------
(* Vocabulary of the properties *)

\* the step taken last was a request for session id
Requested(id) == last.kind = "request" /\ last.session_id = id

\* ... that found the session in step st ("start" also for a session the
\* request created)
RequestedIn(id, st) ==
    /\ Requested(id)
    /\ IF last.before = None THEN st = "start" ELSE Val(last.before).step = st

\* the session the last request found (the new dict if it created it)
Before == IF last.before = None THEN NewSession ELSE Val(last.before)

\* the message of the last request as the handler sees it, trimmed
Trimmed == user_msg_original_of[last.message]

\* v occurs in text
Occurs(v, text) == \E i \in 1..Len(text) : SubSeq(text, i, i + Len(v) - 1) = v

\* the calls of one sink for one session, as positions of sinkLog
CallsOf(log, sink, id) == {k \in 1..Len(log) : log[k].sink = sink /\ log[k].session_id = id}

FieldsSet(r) ==
    r.person_name # None /\ r.age # None /\ r.location # None /\ r.food_requirement # None

---------------------------------------------------------------------------
(* C1 *)

\* C1: the step of a session never decreases in the order start <
\* asking_name < asking_age < asking_location < asking_food_requirement <
\* completed: no step moves a session to an earlier step (so a step that
\* was left is never entered again), sessions never vanish, and every step
\* value is one of the six.
C1_StepsNeverGoBack ==
    [][\A id \in DOMAIN sessions :
          /\ id \in DOMAIN sessions'
          /\ StepRank(sessions[id].step) >= 1
          /\ StepRank(sessions'[id].step) >= StepRank(sessions[id].step)]_vars

C1_Witness ==
    \E id \in DOMAIN sessions :
        /\ RequestedIn(id, "asking_food_requirement")
        /\ sessions[id].step = "completed"
        /\ sessions[id].age_attempts = Some(2)

---------------------------------------------------------------------------
(* C2 *)

\* C2: for every session store_in_supabase is called at most once and the
\* notification at most once; the record handed over has person_name, age,
\* location and food_requirement all set; and a step makes sink calls only
\* if it is a request that found the session in asking_food_requirement and
\* left it in completed.
C2_DispatchOnceOnCompletion ==
    /\ [](\A id \in SessionIds :
            /\ Cardinality(CallsOf(sinkLog, "storage", id)) <= 1
            /\ Cardinality(CallsOf(sinkLog, "notification", id)) <= 1
            /\ \A k \in CallsOf(sinkLog, "storage", id) \cup CallsOf(sinkLog, "notification", id) :
                  /\ FieldsSet(sinkLog[k].record)
                  /\ id \in DOMAIN sessions
                  /\ sessions[id].step = "completed"
                  /\ sinkLog[k].record = Record(sessions[id], id))
    /\ [][\A id \in SessionIds :
            (\/ CallsOf(sinkLog', "storage", id) # CallsOf(sinkLog, "storage", id)
             \/ CallsOf(sinkLog', "notification", id) # CallsOf(sinkLog, "notification", id))
            => /\ last'.kind = "request" /\ last'.session_id = id
               /\ id \in DOMAIN sessions
               /\ sessions[id].step = "asking_food_requirement"
               /\ sessions'[id].step = "completed"
               /\ FieldsSet(sessions'[id])
               /\ CallsOf(sinkLog, "storage", id) = {}]_vars

C2_Witness ==
    \E id \in DOMAIN sessions :
        /\ RequestedIn(id, "asking_food_requirement")
        /\ Cardinality(CallsOf(sinkLog, "storage", id)) = 1
        /\ last.calls >= 1

---------------------------------------------------------------------------
(* C3 *)

\* C3: a request of any content for a session whose step is completed
\* returns the 'already processed' reply, leaves the whole session store
\* unchanged and calls no sink.
C3_CompletedIsFinal ==
    [][(/\ last'.kind = "request"
        /\ last'.session_id \in DOMAIN sessions
        /\ sessions[last'.session_id].step = "completed")
       => /\ last'.reply = Some(AlreadyProcessedReply)
          /\ sessions' = sessions
          /\ sinkLog' = sinkLog
          /\ awaiting' = awaiting]_vars

C3_Witness ==
    \E id \in DOMAIN sessions :
        /\ RequestedIn(id, "completed")
        /\ Trimmed # ""
        /\ last.reply = Some(AlreadyProcessedReply)
        /\ CallsOf(sinkLog, "storage", id) # {}

---------------------------------------------------------------------------
(* C4 *)

\* C4: every call of the notification sink comes, in the order of the
\* calls, after a call of the storage sink for the same session whose
\* insert returned a record; a session whose storage call ended otherwise
\* (unconfigured, raised, no data) has no notification call.
C4_NotifyOnlyAfterStored ==
    /\ \A k \in 1..Len(sinkLog) :
          sinkLog[k].sink = "notification" =>
             \E j \in 1..(k - 1) :
                /\ sinkLog[j].sink = "storage"
                /\ sinkLog[j].session_id = sinkLog[k].session_id
                /\ sinkLog[j].result = "data"
    /\ \A j \in 1..Len(sinkLog) :
          (sinkLog[j].sink = "storage" /\ sinkLog[j].result # "data") =>
             CallsOf(sinkLog, "notification", sinkLog[j].session_id) = {}

C4_Witness ==
    \E k \in 1..Len(sinkLog) :
        /\ sinkLog[k].sink = "notification"
        /\ sinkLog[k].result = "posted"
        /\ RequestedIn(sinkLog[k].session_id, "asking_food_requirement")

---------------------------------------------------------------------------
(* C5 *)

\* the result of the storage call made for session id
StorageResult(id) == sinkLog[CHOOSE k \in CallsOf(sinkLog, "storage", id) : TRUE].result

\* C5: the request that dispatches leaves the session in completed
\* whatever the sinks do; its reply is the confirmation followed by the
\* 'saved' suffix when the insert returned a record and by the
\* degraded-service suffix when storage was unconfigured, raised or returned
\* no data; and the reply given after the webhook POST is the confirmation
\* with the 'saved' suffix whether the POST succeeded or failed.
C5_ReplyFollowsStorageOnly ==
    \A id \in DOMAIN sessions :
        /\ (RequestedIn(id, "asking_food_requirement") /\ last.calls >= 1) =>
              /\ sessions[id].step = "completed"
              /\ CallsOf(sinkLog, "storage", id) # {}
              /\ IF StorageResult(id) = "data"
                 THEN last.reply \in
                        {None, Some(ConfirmationReply(Val(sessions[id].person_name)) \o SavedSuffix)}
                 ELSE last.reply =
                        Some(ConfirmationReply(Val(sessions[id].person_name)) \o DegradedSuffix)
        /\ (last.kind = "resume" /\ last.session_id = id) =>
              /\ sessions[id].step = "completed"
              /\ StorageResult(id) = "data"
              /\ sinkLog[Len(sinkLog)].result \in {"sent", "failed"}
              /\ last.reply = Some(ConfirmationReply(Val(sessions[id].person_name)) \o SavedSuffix)

C5_Witness ==
    \E id \in DOMAIN sessions :
        /\ RequestedIn(id, "asking_food_requirement")
        /\ CallsOf(sinkLog, "storage", id) # {}
        /\ StorageResult(id) = "raise"
        /\ sessions[id].step = "completed"
        /\ last.reply = Some(ConfirmationReply(Val(sessions[id].person_name)) \o DegradedSuffix)

---------------------------------------------------------------------------
(* C6 *)

\* C6: the retry counter is absent, 1 or 2; a session in asking_age has a
\* counter of at most 1; a counter of 2 goes with the default age 25 and a
\* step past asking_age; and a request that finds a session in asking_age
\* with one failed attempt moves it to asking_location.
C6_AgeRetryBudget ==
    \A id \in DOMAIN sessions :
        LET s == sessions[id] IN
        /\ s.age_attempts \in {None, Some(1), Some(2)}
        /\ s.step = "asking_age" => s.age_attempts \in {None, Some(1)}
        /\ s.age_attempts = Some(2) =>
              s.age = Some(DefaultAge) /\ StepRank(s.step) >= StepRank("asking_location")
        /\ (RequestedIn(id, "asking_age") /\ Before.age_attempts = Some(1)) =>
              s.step = "asking_location" /\ s.age # None

C6_Witness ==
    \E id \in DOMAIN sessions :
        /\ RequestedIn(id, "asking_age")
        /\ Before.age_attempts = Some(1)
        /\ NumbersOf[user_msg_of[last.message]] = "200"
        /\ sessions[id].age_attempts = Some(2)
        /\ sessions[id].age = Some(DefaultAge)

---------------------------------------------------------------------------
(* C9 *)

\* C9: a request that finds its session in start, or creates it, leaves
\* person_name, age, location and food_requirement null; the session is in
\* asking_name afterwards if the message, trimmed as the handler trims it,
\* is not empty, and in start if it is.
C9_StartStoresNothing ==
    \A id \in DOMAIN sessions :
        RequestedIn(id, "start") =>
            /\ sessions[id].person_name = None
            /\ sessions[id].age = None
            /\ sessions[id].location = None
            /\ sessions[id].food_requirement = None
            /\ sessions[id].step = IF Trimmed # "" THEN "asking_name" ELSE "start"

C9_Witness ==
    \E id \in DOMAIN sessions :
        /\ RequestedIn(id, "start")
        /\ last.before # None
        /\ Trimmed = "I am John 200"
        /\ sessions[id].step = "asking_name"

---------------------------------------------------------------------------
(* C10 *)

\* the field written in each of the three steps, with its default
OwnField == [asking_name |-> "person_name", asking_location |-> "location",
             asking_food_requirement |-> "food_requirement"]
DefaultOf == [asking_name |-> "User", asking_location |-> "Not specified",
              asking_food_requirement |-> "General food assistance"]

\* C10: a request that finds its session in asking_name, asking_location
\* or asking_food_requirement moves it one step on and changes, besides the
\* step, only the field of that step; that field is the fixed default if
\* the trimmed message is empty, and otherwise a non-empty text that occurs
\* in the message.
C10_OneFieldPerStep ==
    \A id \in DOMAIN sessions :
        \A st \in DOMAIN OwnField :
            RequestedIn(id, st) =>
                LET s == sessions[id]
                    f == OwnField[st]
                IN  /\ StepRank(s.step) = StepRank(st) + 1
                    /\ s = [Before EXCEPT !.step = s.step, ![f] = s[f]]
                    /\ s[f] # None
                    /\ IF Trimmed = "" THEN Val(s[f]) = DefaultOf[st]
                       ELSE Val(s[f]) # "" /\ Occurs(Val(s[f]), last.message)

C10_Witness ==
    \E id \in DOMAIN sessions :
        /\ RequestedIn(id, "asking_name")
        /\ last.message = "I am John 200"
        /\ sessions[id].person_name = Some("John")

---------------------------------------------------------------------------
(* C7 *)

\* C7 as stated: whatever the messages are, empty ones included, the
\* conversation eventually reaches completed.
C7_EveryConversationCompletes ==
    <>(\E id \in DOMAIN sessions : sessions[id].step = "completed")

\* C7, amended: every request that finds a session in asking_name,
\* asking_location or asking_food_requirement moves it on, a request that
\* finds it in asking_age after one failed attempt moves it on, a request
\* that finds it in start moves it on exactly if the trimmed message is not
\* empty; and a conversation that has left start eventually reaches
\* completed.
C7_ProgressOnceStarted ==
    /\ [](\A id \in DOMAIN sessions :
            /\ \A st \in {"asking_name", "asking_location", "asking_food_requirement"} :
                  RequestedIn(id, st) => StepRank(sessions[id].step) = StepRank(st) + 1
            /\ (RequestedIn(id, "asking_age") /\ Before.age_attempts # None) =>
                  sessions[id].step = "asking_location"
            /\ (RequestedIn(id, "asking_age") /\ Before.age_attempts = None) =>
                  sessions[id].step \in {"asking_age", "asking_location"}
            /\ RequestedIn(id, "start") =>
                  sessions[id].step = IF Trimmed # "" THEN "asking_name" ELSE "start")
    /\ (\E id \in DOMAIN sessions : sessions[id].step # "start")
          ~> (\E id \in DOMAIN sessions : sessions[id].step = "completed")

C7_Witness ==
    \E id \in DOMAIN sessions :
        /\ RequestedIn(id, "start")
        /\ last.before # None
        /\ last.message = "  "
        /\ sessions[id].step = "start"

---------------------------------------------------------------------------
(* C8 *)

\* the step after each message of Script
ScriptSteps ==
    << "start", "asking_name", "asking_age", "asking_age", "asking_location",
       "asking_food_requirement", "completed" >>

\* C8: a conversation that follows Script is, after its k-th message, in
\* the k-th step of start, asking_name, asking_age, asking_age,
\* asking_location, asking_food_requirement, completed; person_name is John
\* from the third message on, age 25 from the fifth, location Lagos from
\* the sixth, food_requirement "rice and beans" after the seventh; and the
\* storage sink has been called for it exactly once after the seventh
\* message, with those values, and not at all before.
C8_WalkThrough ==
    \A id \in SessionIds :
        LET k == script[id] IN
        IF k = 0 THEN id \notin DOMAIN sessions
        ELSE /\ id \in DOMAIN sessions
             /\ sessions[id].step = ScriptSteps[k]
             /\ sessions[id].person_name = IF k >= 3 THEN Some("John") ELSE None
             /\ sessions[id].age = IF k >= 5 THEN Some(DefaultAge) ELSE None
             /\ sessions[id].location = IF k >= 6 THEN Some("Lagos") ELSE None
             /\ sessions[id].food_requirement = IF k >= 7 THEN Some("rice and beans") ELSE None
             /\ Cardinality(CallsOf(sinkLog, "storage", id)) = IF k >= 7 THEN 1 ELSE 0
             /\ \A c \in CallsOf(sinkLog, "storage", id) :
                   sinkLog[c].record =
                      [ person_name |-> Some("John"), age |-> Some(25),
                        location |-> Some("Lagos"),
                        food_requirement |-> Some("rice and beans"),
                        assistance_type |-> "immediate", session_id |-> id ]

C8_Witness ==
    \E id \in DOMAIN sessions :
        /\ script[id] = Len(Script)
        /\ sessions[id].step = "completed"
        /\ CallsOf(sinkLog, "storage", id) # {}

---------------------------------------------------------------------------
(* Faults *)

\* the reply of the except clause of chat_with_ai and the one of main.chat
ErrorReply == "I'm sorry, I encountered an error. Please try again or contact support."
WrapperErrorReply == "Sorry, something went wrong. Please try again."

\* the two handlers of POST /chat: chat_with_ai as the router registers it,
\* and main.chat, which awaits chat_with_ai inside its own try
Endpoints == {"router", "wrapper"}

\* where a fault is raised: "try" is the debug print inside the try of
\* chat_with_ai (it raises when the stream cannot take the text), "except"
\* is that print and the print of the except clause as well, so that the
\* exception leaves chat_with_ai
FaultPlaces == {"try", "except"}

\* ChatResponse(reply=...) of main.chat without a session_id: the schema
\* (not in the sources) either lets the field default to None or rejects it
WrapperFallbacks == {"without session_id", "validation error"}

\* what chat_with_ai does with a fault: its except clause answers, or the
\* exception is raised to the caller
chat_with_ai_fault(session_id, place) ==
    IF place = "try"
    THEN [ raised |-> FALSE, reply |-> Some(ErrorReply), session_id |-> Some(session_id) ]
    ELSE [ raised |-> TRUE, reply |-> None, session_id |-> None ]

\* main.chat: the response of chat_with_ai, or the fallback response when
\* chat_with_ai raised
chat(outcome, fallback) ==
    IF ~outcome.raised THEN outcome
    ELSE IF fallback = "without session_id"
         THEN [ raised |-> FALSE, reply |-> Some(WrapperErrorReply), session_id |-> None ]
         ELSE [ raised |-> TRUE, reply |-> None, session_id |-> None ]

\* POST /chat in which the debug print raises.  The session has been created
\* by then if it did not exist; a new session with an empty message has been
\* greeted before the print is reached, so no fault is met there.
ChatFaults(endpoint, sent_id, message, place, fallback) ==
    /\ \E session_id \in (IF Truthy(sent_id) THEN {Val(sent_id)}
                          ELSE SessionIds \ DOMAIN sessions) :
          LET user_msg_original == user_msg_original_of[message]
              is_new_session == session_id \notin DOMAIN sessions
              inner == chat_with_ai_fault(session_id, place)
              response == IF endpoint = "wrapper" THEN chat(inner, fallback) ELSE inner
          IN  /\ ~(is_new_session /\ user_msg_original = "")
              /\ sessions' = IF is_new_session THEN Put(sessions, session_id, NewSession)
                             ELSE sessions
              /\ last' = [ kind |-> "fault", message |-> message, sent_id |-> sent_id,
                           session_id |-> session_id,
                           before |-> IF is_new_session THEN None
                                      ELSE Some(sessions[session_id]),
                           reply |-> response.reply, calls |-> 0,
                           escaped |-> response.raised,
                           returned_id |-> response.session_id ]
    /\ UNCHANGED <<supabase, FULFILLMENT_WEBHOOK_URL, sinkLog, awaiting>>

\* the fallback of main.chat is built only when the request came through
\* main.chat and chat_with_ai raised
FallbacksOf(endpoint, place) ==
    IF endpoint = "wrapper" /\ place = "except" THEN WrapperFallbacks ELSE {"not built"}

\* the fault does not depend on the text: an empty and a non-empty message
FaultMessages == {"", "I am John 200"}

\* the client of LiveNext, whose requests may meet a fault: the first
\* request carries no session_id, the later ones the session_id of the
\* session that was created
FaultNext ==
    \/ LiveNext
    \/ \E endpoint \in Endpoints, message \in FaultMessages, place \in FaultPlaces :
          \E sent_id \in (IF sessions = <<>> THEN {None}
                           ELSE {Some(id) : id \in DOMAIN sessions}),
             fallback \in FallbacksOf(endpoint, place) :
                /\ ChatFaults(endpoint, sent_id, message, place, fallback)
                /\ UNCHANGED <<script, graphs>>

FaultSpec == Init /\ [][FaultNext]_vars

---------------------------------------------------------------------------
(* C11 *)

\* C11: every response carries a session_id under which a session is
\* stored: the session_id of the request if it had one, otherwise an
\* identifier under which no session was stored before.  A request that
\* sends the session_id of a stored session is handled on that session as it
\* was left: the step stays or moves one on, the fields that were set keep
\* their values, and no other session is touched.
C11_SessionIdRoundTrip ==
    /\ [](last.kind = "request" =>
            /\ last.session_id \in DOMAIN sessions
            /\ Truthy(last.sent_id) => last.session_id = Val(last.sent_id)
            /\ ~Truthy(last.sent_id) => last.before = None)
    /\ [][ \A id \in DOMAIN sessions :
             /\ (last' # last /\ last'.kind = "request" /\ last'.sent_id = Some(id)) =>
                    LET s == sessions[id]
                        t == sessions'[id]
                    IN  /\ last'.session_id = id
                        /\ StepRank(t.step) \in {StepRank(s.step), StepRank(s.step) + 1}
                        /\ \A f \in {"person_name", "age", "location", "food_requirement"} :
                              s[f] # None => t[f] = s[f]
             /\ (last' # last /\ last'.session_id # id) => sessions'[id] = sessions[id]
             /\ (last' # last /\ last'.sent_id = None) => last'.session_id # id
      ]_vars

C11_Witness ==
    \E id \in DOMAIN sessions :
        /\ last.kind = "request"
        /\ last.sent_id = Some(id)
        /\ last.before # None
        /\ Val(last.before).step = "asking_location"
        /\ sessions[id].step = "asking_food_requirement"
        /\ sessions[id].person_name = Val(last.before).person_name
        /\ DOMAIN sessions # {id}

---------------------------------------------------------------------------
(* C12 *)

\* C12: a request that meets a fault is answered all the same, by either
\* handler of POST /chat: the exception does not leave the endpoint, the
\* reply is one of the two apologies, and the response carries the
\* session_id of the request when the request had one.
C12_FaultsBecomeApologies ==
    last.kind = "fault" =>
        /\ ~last.escaped
        /\ last.reply \in {Some(ErrorReply), Some(WrapperErrorReply)}
        /\ Truthy(last.sent_id) => last.returned_id = last.sent_id

---------------------------------------------------------------------------
(* C13 *)

\* step values that are none of the six
UnknownSteps == {"", "unknown", "asking_food"}

\* sessions whose step has been corrupted, with some of the fields collected
CorruptSessions ==
    { [NewSession EXCEPT !.step = st, !.person_name = n, !.age = a, !.location = l] :
        st \in UnknownSteps, n \in {None, Some("John")}, a \in {None, Some(45)},
        l \in {None, Some("Lagos")} }

\* the store holds one session with a corrupted step
CorruptInit ==
    /\ sessions \in {[id \in {"s1"} |-> c] : c \in CorruptSessions}
    /\ supabase \in BOOLEAN
    /\ FULFILLMENT_WEBHOOK_URL \in BOOLEAN
    /\ sinkLog = <<>>
    /\ awaiting = {}
    /\ last = NoStep
    /\ script = [id \in SessionIds |-> 0]
    /\ graphs = <<>>

\* the client goes on with the conversation of that session
CorruptNext ==
    \/ \E id \in DOMAIN sessions, message \in Messages :
          \E insert \in Inserts(Some(id)) :
            Chat(Some(id), message, insert) /\ UNCHANGED <<script, graphs>>
    \/ \E session_id \in SessionIds, post \in PostOutcomes :
            NotificationReturns(session_id, post) /\ UNCHANGED <<script, graphs>>

CorruptSpec == CorruptInit /\ [][CorruptNext]_vars

\* C13: a request that finds its session with a step that is none of the
\* six sets the step to asking_name and changes nothing else of the session,
\* whatever the message; the reply asks for the name, and no sink is called.
C13_UnknownStepRecovers ==
    \A id \in DOMAIN sessions :
        (Requested(id) /\ last.before # None /\ StepRank(Val(last.before).step) = 0) =>
            /\ sessions[id] = [Val(last.before) EXCEPT !.step = "asking_name"]
            /\ last.reply = Some(RecoverReply)
            /\ last.calls = 0
            /\ sinkLog = <<>>

C13_Witness ==
    \E id \in DOMAIN sessions :
        /\ Requested(id)
        /\ last.message = "I am 45 years old"
        /\ last.before # None
        /\ Val(last.before).step = "unknown"
        /\ Val(last.before).person_name = Some("John")
        /\ sessions[id].step = "asking_name"
        /\ sessions[id].person_name = Some("John")

---------------------------------------------------------------------------
(* C14 *)

\* C14: a request creates a session entry exactly when no session is stored
\* under its session_id: the entry starts from step start with the four
\* fields null and assistance_type immediate (and has gone on to asking_name,
\* the fields still null, when the first message was not empty).  No step
\* removes an entry, and an entry that has left its initial value is never
\* set back to it.
C14_SessionsCreatedOnceAndKept ==
    [][ /\ DOMAIN sessions \subseteq DOMAIN sessions'
        /\ \A id \in DOMAIN sessions' \ DOMAIN sessions :
              /\ last'.kind = "request"
              /\ last'.session_id = id
              /\ last'.before = None
              /\ sessions'[id] =
                    [NewSession EXCEPT !.step =
                        IF user_msg_original_of[last'.message] = "" THEN "start"
                        ELSE "asking_name"]
        /\ (last' # last /\ last'.kind = "request" /\ last'.before = None) =>
              /\ last'.session_id \notin DOMAIN sessions
              /\ last'.session_id \in DOMAIN sessions'
        /\ \A id \in DOMAIN sessions :
              sessions[id] # NewSession => sessions'[id] # NewSession
      ]_vars

C14_Witness ==
    \E id, other \in DOMAIN sessions :
        /\ id # other
        /\ Requested(id)
        /\ last.before = None
        /\ last.message = "I am John 200"
        /\ sessions[id] = [NewSession EXCEPT !.step = "asking_name"]
        /\ sessions[other].step = "asking_location"

---------------------------------------------------------------------------
(* C15 *)

\* C15: the age of every stored session is null or an integer from 1 to
\* 120, and it is null exactly as long as the session has not left
\* asking_age.
C15_AgeInRange ==
    \A id \in DOMAIN sessions :
        LET s == sessions[id]
        IN  /\ s.age = None \/ Val(s.age) \in MinAge..MaxAge
            /\ s.age = None <=> StepRank(s.step) <= StepRank("asking_age")

\* the second message without a usable age held the number 200, which was
\* not taken: the default was
C15_Witness ==
    \E id \in DOMAIN sessions :
        /\ RequestedIn(id, "asking_age")
        /\ last.message = "I am John 200"
        /\ Before.age_attempts = Some(1)
        /\ sessions[id].age = Some(DefaultAge)
        /\ sessions[id].step = "asking_location"

---------------------------------------------------------------------------
(* The extractors on their own *)

\* texts handed to the extractors: a beginning and a rest
Intros == {"", "My name is ", "I am ", "called "}
Bodies ==
    { "Alice Smith", "hello there friend", "alice", "Alice Smith Jones", "no idea",
      "45 years old", "200 years old", "45", "a45", "45 i am 200" }
Texts == {i \o b : i \in Intros, b \in Bodies}

\* the results of the two extractors on these texts
ExtractedName == [t \in Texts |-> extract_name(t)]
ExtractedAge == [t \in Texts |-> extract_age(t)]

\* a call of extract_name(text) or of extract_age(text); last keeps the
\* text and the result
ExtractName(text) ==
    /\ last' = [NoStep EXCEPT !.kind = "extract_name", !.message = text,
                              !.reply = ExtractedName[text]]
    /\ UNCHANGED <<sessions, supabase, FULFILLMENT_WEBHOOK_URL, sinkLog, awaiting, script, graphs>>

ExtractAge(text) ==
    /\ last' = [NoStep EXCEPT !.kind = "extract_age", !.message = text,
                              !.reply = ExtractedAge[text]]
    /\ UNCHANGED <<sessions, supabase, FULFILLMENT_WEBHOOK_URL, sinkLog, awaiting, script, graphs>>

ExtractNext ==
    \/ \E text \in Texts : ExtractName(text)
    \/ \E text \in Texts : ExtractAge(text)

ExtractSpec == Init /\ [][ExtractNext]_vars

---------------------------------------------------------------------------
(* C16 *)

\* the text holds one of the phrases that introduce a name
HasNamePhrase(text) ==
    \E i \in 1..Len(text), p \in NamePrefixes : LiteralAt(text, i, p)

RECURSIVE LowerRun(_, _)
LowerRun(s, i) == IF Char(s, i) \in LowerLetters THEN 1 + LowerRun(s, i + 1) ELSE 0

\* length of the capitalised word at g: a capital and small letters after it
CapitalisedWord(s, g) ==
    IF Char(s, g) \in UpperLetters /\ LowerRun(s, g + 1) >= 1
    THEN 1 + LowerRun(s, g + 1) ELSE 0

\* the text from g on is capitalised words with blanks between them
RECURSIVE CapitalisedWords(_, _)
CapitalisedWords(s, g) ==
    LET w == CapitalisedWord(s, g)
    IN  /\ w > 0
        /\ \/ g + w = Len(s) + 1
           \/ /\ SpaceRun(s, g + w) >= 1
              /\ CapitalisedWords(s, g + w + SpaceRun(s, g + w))

\* C16: extract_name("My name is Alice Smith") is "Alice Smith",
\* extract_name("hello there friend") is null, and so is the result for
\* every text that holds no name-introducing phrase and is not made of
\* capitalised words.
C16_NameExamples ==
    last.kind = "extract_name" =>
        /\ last.message = "My name is Alice Smith" => last.reply = Some("Alice Smith")
        /\ last.message = "hello there friend" => last.reply = None
        /\ (~HasNamePhrase(last.message) /\ ~CapitalisedWords(last.message, 1)) =>
                last.reply = None

---------------------------------------------------------------------------
(* C17 *)

\* C17: extract_age("I am 45 years old") is 45, extract_age("I am 200
\* years old") and extract_age("no idea") are null.  No result is outside 1
\* to 120, a text without a digit gives null, and a number out of range
\* found by an earlier pattern does not end the search: in "45 i am 200" the
\* first pattern finds 200 and the second finds 45, which is the result.
C17_AgeExamples ==
    last.kind = "extract_age" =>
        /\ last.message = "I am 45 years old" => last.reply = Some(45)
        /\ last.message = "I am 200 years old" => last.reply = None
        /\ last.message = "no idea" => last.reply = None
        /\ last.message = "45 i am 200" => last.reply = Some(45)
        /\ last.reply # None => Val(last.reply) \in MinAge..MaxAge
        /\ (\A i \in 1..Len(last.message) : ~IsDigit(Char(last.message, i))) =>
                last.reply = None

C17_Witness ==
    /\ last.kind = "extract_age"
    /\ last.message = "I am 200 years old"
    /\ last.reply = None

---------------------------------------------------------------------------
(* The graph-based variant, langgraph_workflow.py *)

urgent_keywords ==
    {"hungry", "starving", "need food now", "urgent", "immediate", "emergency", "asap"}
scheduled_keywords == {"later", "tomorrow", "next week", "schedule", "plan"}
ngo_keywords == {"ngo", "referral", "support", "help", "assistance", "organization"}

\* keyword in user_message
keyword_in(keyword, user_message) ==
    \E i \in 1..(Len(user_message) - Len(keyword) + 1) :
        SubSeq(user_message, i, i + Len(keyword) - 1) = keyword

\* the intent router_node gives to a lower-cased message
classify(user_message) ==
    IF \E k \in urgent_keywords : keyword_in(k, user_message) THEN "immediate_food"
    ELSE IF \E k \in scheduled_keywords : keyword_in(k, user_message) THEN "scheduled_food"
    ELSE IF \E k \in ngo_keywords : keyword_in(k, user_message) THEN "ngo_referral"
    ELSE "immediate_food"

\* router_node on each message: the intent of last_message.content.lower()
GraphIntentOf == [m \in RunMessages |-> classify(lower(m))]

\* the assistance type that goes with an intent; it is also the argument
\* the node of that intent passes to collect_user_info
AssistanceOf(intent) ==
    IF intent = "immediate_food" THEN "immediate"
    ELSE IF intent = "scheduled_food" THEN "scheduled"
    ELSE "ngo_referral"

\* the ConversationState a conversation starts from.  Of messages the model
\* keeps what the nodes read: whether the last one is a HumanMessage or an
\* AIMessage (last_kind), the content of the last HumanMessage and of the
\* last AIMessage (reply); first is the content of the first HumanMessage.
\* running: the run has not reached END; calls: the sink calls made.
NewConversation ==
    [ last_kind |-> "none", content |-> "", first |-> None, reply |-> None,
      intent |-> None, person_name |-> None, age |-> None, location |-> None,
      food_requirement |-> None, assistance_type |-> None,
      fulfillment_triggered |-> FALSE, running |-> FALSE, calls |-> <<>> ]

start_node(state) == state

router_node(state) ==
    IF state.last_kind # "human" THEN state
    ELSE LET intent == GraphIntentOf[state.content]  \* classify(content.lower())
         IN  [state EXCEPT !.intent = Some(intent),
                           !.assistance_type = Some(AssistanceOf(intent))]

\* the alternatives of (?:i live in|location is|address is|i am at|i am
\* in|at|in|near|area is|located at); none is the beginning of another
location_prefixes ==
    { "i live in", "location is", "address is", "i am at", "i am in", "at", "in",
      "near", "area is", "located at" }

\* the position of the first newline from g on, Len(s) + 1 when there is none
RECURSIVE LineEnd(_, _)
LineEnd(s, g) == IF g > Len(s) \/ Char(s, g) = "\n" THEN g ELSE LineEnd(s, g + 1)

\* the numbers of blanks \s+ can take at q so that (.+) has a character left
LocationSpaces(s, q) ==
    {k \in 1..SpaceRun(s, q) : q + k <= Len(s) /\ Char(s, q + k) # "\n"}

LocationPatternAt(s, i) ==
    \E p \in location_prefixes : LiteralAt(s, i, p) /\ LocationSpaces(s, i + Len(p)) # {}

\* group(1) of the first location pattern for the match that starts at i
LocationPatternGroup(s, i) ==
    LET p == CHOOSE q \in location_prefixes :
                LiteralAt(s, i, q) /\ LocationSpaces(s, i + Len(q)) # {}
        ks == LocationSpaces(s, i + Len(p))
        k == CHOOSE m \in ks : \A n \in ks : n <= m
        g == i + Len(p) + k
    IN  SubSeq(s, g, LineEnd(s, g) - 1)

\* ^(.+)$ : one line, not empty
WholeLine(s) == LineEnd(s, 1) > 1 /\ AtEnd(s, LineEnd(s, 1))

\* re.sub of the prefixes at the beginning of the text
remove_location_prefix(t) ==
    IF \E p \in location_prefixes : LiteralAt(t, 1, p) /\ SpaceRun(t, 1 + Len(p)) >= 1
    THEN LET p == CHOOSE q \in location_prefixes :
                    LiteralAt(t, 1, q) /\ SpaceRun(t, 1 + Len(q)) >= 1
         IN  From(t, 1 + Len(p) + SpaceRun(t, 1 + Len(p)))
    ELSE t

\* the location collect_user_info takes from user_text: the first of the two
\* patterns whose group, trimmed and without prefix, has more than 3 characters
extract_location(user_text) ==
    LET i1 == Search(LocationPatternAt, user_text, 1)
        c1 == IF i1 > 0
              THEN <<remove_location_prefix(strip(LocationPatternGroup(user_text, i1)))>>
              ELSE <<>>
        c2 == IF WholeLine(user_text)
              THEN <<remove_location_prefix(
                        strip(SubSeq(user_text, 1, LineEnd(user_text, 1) - 1)))>>
              ELSE <<>>
        long == SelectSeq(c1 \o c2, LAMBDA c : Len(c) > 3)
    IN  IF long = <<>> THEN None ELSE Some(Head(long))

\* what collect_user_info finds in each message: user_text, and the name,
\* the age and the location its patterns give (the name and age patterns and
\* their use are those of extract_name and extract_age)
user_text_of == [m \in RunMessages |-> strip(m)]
GraphNameOf == [m \in RunMessages |-> extract_name(user_text_of[m])]
GraphAgeOf == [m \in RunMessages |-> extract_age(user_text_of[m])]
GraphLocationOf == [m \in RunMessages |-> extract_location(user_text_of[m])]

GraphConfirmationReply == "Thank you! Your food assistance request has been confirmed. We're coordinating with our partners to ensure you receive food within 10 minutes. You will receive a confirmation shortly."
AllProvidedReply == "Thank you for providing all the information!"

\* how trigger_fulfillment gets the notification coroutine to run: on a
\* loop that is not running, as a task of the running loop, or not at all
\* because the scheduling raised
ScheduleOutcomes == {"run_until_complete", "create_task", "raise"}

\* the sink calls of trigger_fulfillment
trigger_fulfillment(state, session_id, assistance_type, insert, schedule) ==
    LET fulfillment_data ==
            [ person_name |-> state.person_name, age |-> state.age,
              location |-> state.location, food_requirement |-> state.food_requirement,
              assistance_type |-> assistance_type, session_id |-> session_id ]
    IN  (IF supabase
         THEN << [ sink |-> "storage", session_id |-> session_id,
                   record |-> fulfillment_data, result |-> insert ] >>
         ELSE <<>>)
        \o (IF schedule # "raise"
            THEN << [ sink |-> "notification", session_id |-> session_id,
                      record |-> fulfillment_data, result |-> schedule ] >>
            ELSE <<>>)

\* the fields after the extraction from the last message, a HumanMessage
extract_fields(state) ==
    LET m == state.content
        person_name == IF ~Truthy(state.person_name) /\ GraphNameOf[m] # None
                       THEN GraphNameOf[m] ELSE state.person_name
        age == IF state.age = None THEN GraphAgeOf[m] ELSE state.age
        location == IF ~Truthy(state.location) /\ GraphLocationOf[m] # None
                    THEN GraphLocationOf[m] ELSE state.location
        food_requirement ==
            IF /\ ~Truthy(state.food_requirement)
               /\ Truthy(person_name) /\ age # None /\ Truthy(location)
               /\ Len(user_text_of[m]) > 10
            THEN Some(user_text_of[m]) ELSE state.food_requirement
    IN  [state EXCEPT !.person_name = person_name, !.age = age,
                      !.location = location, !.food_requirement = food_requirement]

\* the question for the first field that is missing
next_question(state) ==
    IF ~Truthy(state.person_name) THEN AskNameReply
    ELSE IF state.age = None THEN AskAgeReply(Val(state.person_name))
    ELSE IF ~Truthy(state.location) THEN AskLocationReply
    ELSE IF ~Truthy(state.food_requirement) THEN AskFoodReply
    ELSE AllProvidedReply

collect_user_info(state, session_id, assistance_type, insert, schedule) ==
    IF /\ Truthy(state.person_name) /\ state.age # None
       /\ Truthy(state.location) /\ Truthy(state.food_requirement)
    THEN IF ~state.fulfillment_triggered
         THEN [state EXCEPT
                 !.calls = @ \o trigger_fulfillment(state, session_id, assistance_type,
                                                    insert, schedule),
                 !.fulfillment_triggered = TRUE,
                 !.reply = Some(GraphConfirmationReply),
                 !.last_kind = "ai"]
         ELSE state
    ELSE LET found == IF state.last_kind = "human" THEN extract_fields(state) ELSE state
         IN  [found EXCEPT !.reply = Some(next_question(found)), !.last_kind = "ai"]

should_continue(state) ==
    IF state.fulfillment_triggered THEN "end"
    ELSE IF /\ Truthy(state.person_name) /\ state.age # None
            /\ Truthy(state.location) /\ Truthy(state.food_requirement)
         THEN "end"
    ELSE "collect_info"

\* one run of the compiled graph on the state with a new HumanMessage:
\* start, router, the node of the intent.  When should_continue answers
\* collect_info the node is entered again; the last message is then an
\* AIMessage, nothing is extracted, the same question is appended and
\* should_continue answers the same: the run does not reach END.
workflow(state, session_id, message, insert, schedule) ==
    LET s0 == [state EXCEPT !.last_kind = "human", !.content = message,
                            !.first = IF @ = None THEN Some(message) ELSE @]
        s1 == router_node(start_node(s0))
        s2 == collect_user_info(s1, session_id, AssistanceOf(Val(s1.intent)),
                                insert, schedule)
    IN  IF should_continue(s2) = "end" THEN s2 ELSE [s2 EXCEPT !.running = TRUE]

\* the conversation stored under session_id, a new one if there is none
ConversationOf(session_id) ==
    IF session_id \in DOMAIN graphs THEN graphs[session_id] ELSE NewConversation

\* the ConversationState is complete and the next run calls trigger_fulfillment
Dispatches(session_id) ==
    LET c == ConversationOf(session_id)
    IN  /\ Truthy(c.person_name) /\ c.age # None
        /\ Truthy(c.location) /\ Truthy(c.food_requirement)
        /\ ~c.fulfillment_triggered

GraphInserts(session_id) ==
    IF supabase /\ Dispatches(session_id) THEN InsertOutcomes ELSE {"not executed"}

GraphSchedules(session_id) ==
    IF Dispatches(session_id) THEN ScheduleOutcomes ELSE {"not executed"}

\* the message goes through the workflow, on the conversation of session_id
Invoke(session_id, message, insert, schedule) ==
    graphs' = Put(graphs, session_id,
                  workflow(ConversationOf(session_id), session_id, message, insert, schedule))

\* one client holds one conversation and sends every message to both
\* variants: to chat_with_ai and, under the session_id of its response, to
\* the workflow.  It goes on as long as the runs of the workflow end and
\* chat_with_ai has not completed the session.
GraphNext ==
    \/ \E message \in GraphMessages :
          \E sent_id \in (IF sessions = <<>> THEN {None}
                          ELSE {Some(id) : id \in DOMAIN sessions}) :
            \E insert \in Inserts(sent_id),
               session_id \in (IF sent_id = None THEN SessionIds ELSE {Val(sent_id)}) :
              \E graph_insert \in GraphInserts(session_id),
                 schedule \in GraphSchedules(session_id) :
                /\ ~ConversationOf(session_id).running
                /\ \A id \in DOMAIN sessions : sessions[id].step # "completed"
                /\ Chat(sent_id, message, insert)
                /\ last'.session_id = session_id
                /\ Invoke(session_id, message, graph_insert, schedule)
                /\ UNCHANGED script
    \/ \E session_id \in SessionIds, post \in PostOutcomes :
            NotificationReturns(session_id, post) /\ UNCHANGED <<script, graphs>>

GraphSpec == Init /\ [][GraphNext]_vars

---------------------------------------------------------------------------
(* Claims on the graph-based variant *)

\* C18: the assistance_type of a conversation is the keyword classification
\* of its first message: the state of the workflow holds it after every
\* later message, and the records handed to the sinks carry it.
C18_AssistanceTypeSetOnce ==
    \A id \in DOMAIN graphs :
        LET first_type == Some(AssistanceOf(GraphIntentOf[Val(graphs[id].first)]))
        IN  /\ graphs[id].assistance_type = first_type
            /\ \A k \in 1..Len(graphs[id].calls) :
                  Some(graphs[id].calls[k].record.assistance_type) = first_type

\* C19: fed the same messages from a fresh conversation, the workflow and
\* chat_with_ai hold the same four fields after every message, answer with
\* the same question, and have dispatched after the same message; every
\* run of the workflow ends.
C19_VariantsAgree ==
    \A id \in DOMAIN graphs :
        /\ id \in DOMAIN sessions
        /\ graphs[id].person_name = sessions[id].person_name
        /\ graphs[id].age = sessions[id].age
        /\ graphs[id].location = sessions[id].location
        /\ graphs[id].food_requirement = sessions[id].food_requirement
        /\ (last.kind = "request" /\ last.session_id = id
               => graphs[id].reply = last.reply)
        /\ (graphs[id].fulfillment_triggered <=> sessions[id].step = "completed")
        /\ ~graphs[id].running

\* C20: trigger_fulfillment of the workflow calls the notification sink
\* only after an insert of the same record that did not raise; without a
\* storage client, or when the insert raises, there is no notification.
C20_GraphNotifyOnlyAfterStored ==
    \A id \in DOMAIN graphs :
        \A k \in 1..Len(graphs[id].calls) :
            graphs[id].calls[k].sink = "notification"
               => \E j \in 1..(k - 1) :
                     /\ graphs[id].calls[j].sink = "storage"
                     /\ graphs[id].calls[j].record = graphs[id].calls[k].record
                     /\ graphs[id].calls[j].result # "raise"

\* C21: when a run of the workflow has ended and the conversation holds
\* person_name, age, location and food_requirement, fulfillment_triggered
\* is set and each sink has been handed the record at most once.
C21_TriggeredWhenComplete ==
    \A id \in DOMAIN graphs :
        (/\ ~graphs[id].running
         /\ Truthy(graphs[id].person_name) /\ graphs[id].age # None
         /\ Truthy(graphs[id].location) /\ Truthy(graphs[id].food_requirement))
           => /\ graphs[id].fulfillment_triggered
              /\ \A sink \in {"storage", "notification"} :
                    Cardinality({k \in 1..Len(graphs[id].calls) :
                                    graphs[id].calls[k].sink = sink}) <= 1

---------------------------------------------------------------------------
(* The notification sink on its own *)

\* how "await client.post(...)" and response.raise_for_status() end: a
\* success status, an error status (httpx.HTTPStatusError), no answer
\* within the 10 s (httpx.TimeoutException), no connection
\* (httpx.ConnectError)
PostResults == {"ok", "status", "timeout", "connect"}

\* the outcomes that are exceptions; each is a subclass of Exception
PostExceptions == {"status", "timeout", "connect"}

\* the JSON body of the POST: the session_id is left out and the food
\* requirement goes under food_request
fulfillment_payload(data) ==
    [ person_name |-> data.person_name, age |-> data.age,
      location |-> data.location, food_request |-> data.food_requirement,
      assistance_type |-> data.assistance_type ]

\* mutant: a failed POST is attempted a second time
send_notification_retrying(data, post) ==
    IF FULFILLMENT_WEBHOOK_URL
    THEN [ posts |-> IF post = "ok" THEN <<fulfillment_payload(data)>>
                     ELSE <<fulfillment_payload(data), fulfillment_payload(data)>>,
           returned |-> Some(trigger_fulfillment_notification(post)),
           raised |-> post \notin ({"ok"} \cup PostExceptions) ]
    ELSE [ posts |-> <<>>, returned |-> Some(TRUE), raised |-> FALSE ]

\* one call of trigger_fulfillment_notification(data) from entry to
\* return: the requests it sent, the value returned, whether an exception
\* left it ("except Exception" catches each of PostExceptions)
send_notification(data, post) ==
    IF FULFILLMENT_WEBHOOK_URL
    THEN [ posts |-> <<fulfillment_payload(data)>>,
           returned |-> Some(trigger_fulfillment_notification(post)),
           raised |-> post \notin ({"ok"} \cup PostExceptions) ]
    ELSE [ posts |-> <<>>, returned |-> Some(TRUE), raised |-> FALSE ]

\* records as chat_with_ai and the workflow hand them over
NotifyData ==
    { [ person_name |-> Some(name), age |-> Some(age), location |-> Some("Lagos"),
        food_requirement |-> Some(food), assistance_type |-> "immediate",
        session_id |-> id ] :
        name \in {"John", "Alice Smith"}, age \in {MinAge, MaxAge},
        food \in {"rice", "bread and milk"}, id \in SessionIds }

Notify(data, post) ==
    /\ last' = [NoStep EXCEPT !.kind = "notify", !.session_id = data.session_id,
                              !.before = Some(data), !.message = post,
                              !.reply = Some(send_notification(data, post))]
    /\ UNCHANGED <<sessions, supabase, FULFILLMENT_WEBHOOK_URL, sinkLog, awaiting, script, graphs>>

NotifyNext == \E data \in NotifyData, post \in PostResults : Notify(data, post)

NotifySpec == Init /\ [][NotifyNext]_vars

\* C22: trigger_fulfillment_notification never raises; without a webhook
\* URL it sends no request and returns True; with one it sends exactly one
\* request and returns True when the POST succeeded and False on an error
\* status, a timeout or a failed connection.
C22_NotificationNeverRaises ==
    last.kind = "notify" =>
        LET r == Val(last.reply)
        IN  /\ ~r.raised
            /\ ~FULFILLMENT_WEBHOOK_URL => (r.posts = <<>> /\ r.returned = Some(TRUE))
            /\ FULFILLMENT_WEBHOOK_URL =>
                  /\ r.posts = <<fulfillment_payload(Val(last.before))>>
                  /\ r.returned = Some(last.message = "ok")

C22_Witness ==
    /\ last.kind = "notify" /\ FULFILLMENT_WEBHOOK_URL
    /\ last.message = "timeout"
    /\ Val(last.reply).returned = Some(FALSE)
    /\ Len(Val(last.reply).posts) = 1

---------------------------------------------------------------------------
(* C23 *)

\* C23: a request that finds its session in asking_age with a message from
\* which extract_age takes no age adds one to the retry counter; if it is
\* the first such message the age stays null, the step stays asking_age
\* and the reply asks for the age again; if it is the second an age is set
\* and the step is asking_location.
C23_EveryFailureCounts ==
    \A id \in DOMAIN sessions :
        (RequestedIn(id, "asking_age") /\ AgeOf[user_msg_of[last.message]] = None) =>
            IF Before.age_attempts = None
            THEN /\ sessions[id].age_attempts = Some(1)
                 /\ sessions[id].age = None
                 /\ sessions[id].step = "asking_age"
                 /\ last.reply = Some(RepromptAgeReply)
            ELSE /\ sessions[id].age_attempts = Some(Val(Before.age_attempts) + 1)
                 /\ sessions[id].age # None
                 /\ sessions[id].step = "asking_location"

---------------------------------------------------------------------------
(* A run of the workflow, node by node *)

\* the count of node executions of a run is kept up to this number; once
\* it is reached, one more execution of a collection node that extracts
\* nothing leaves the state kept here as it is, while in the program the
\* list of messages goes on growing by one AIMessage per execution
MaxExecutions == 4

\* the conversations followed node by node
RunIds == {"s1"}

IntentNodes == {"immediate_food", "scheduled_food", "ngo_referral"}

\* add_conditional_edges("router", ...): the node named by the intent
route(state) == IF state.intent = None THEN "immediate_food" ELSE Val(state.intent)

\* the node a run is at ("END" before the first run and after a run ended)
NodeOf(id) == IF id \in DOMAIN graphs THEN graphs[id].node ELSE "END"

\* workflow.invoke on the conversation with a new HumanMessage: the run is
\* at the entry point
Submit(id, message) ==
    /\ NodeOf(id) = "END"
    /\ graphs' = Put(graphs, id,
            [ConversationOf(id) EXCEPT !.last_kind = "human", !.content = message,
                                       !.first = IF @ = None THEN Some(message) ELSE @]
            @@ [node |-> "start", executions |-> 0])
    /\ last' = [NoStep EXCEPT !.kind = "invoke", !.session_id = id, !.message = message]
    /\ UNCHANGED <<sessions, supabase, FULFILLMENT_WEBHOOK_URL, sinkLog, awaiting, script>>

\* add_conditional_edges(node, should_continue, ...) of an intent node
after_collect(node, state) ==
    IF should_continue(state) = "end" THEN "END" ELSE node

\* mutant: every message is sent to the node of immediate_food
run_node_unrouted(state, id, insert, schedule) ==
    LET counted == [state EXCEPT !.executions = IF @ < MaxExecutions THEN @ + 1 ELSE @]
    IN  IF state.node = "start"
        THEN [start_node(counted) EXCEPT !.node = "router"]
        ELSE IF state.node = "router"
        THEN [router_node(counted) EXCEPT !.node = "immediate_food"]
        ELSE LET s == collect_user_info(counted, id, AssistanceOf(state.node),
                                        insert, schedule)
             IN  [s EXCEPT !.node = after_collect(state.node, s)]

\* the node the run is at is executed and the run moves along its edge
run_node(state, id, insert, schedule) ==
    LET counted == [state EXCEPT !.executions = IF @ < MaxExecutions THEN @ + 1 ELSE @]
    IN  IF state.node = "start"
        THEN [start_node(counted) EXCEPT !.node = "router"]
        ELSE IF state.node = "router"
        THEN LET s == router_node(counted) IN [s EXCEPT !.node = route(s)]
        ELSE LET s == collect_user_info(counted, id, AssistanceOf(state.node),
                                        insert, schedule)
             IN  [s EXCEPT !.node = after_collect(state.node, s)]

RunNode(id, insert, schedule) ==
    /\ NodeOf(id) # "END"
    /\ graphs' = [graphs EXCEPT ![id] = run_node(@, id, insert, schedule)]
    /\ last' = [NoStep EXCEPT !.kind = "node", !.session_id = id,
                              !.message = graphs[id].node,
                              !.before = Some(graphs[id])]
    /\ UNCHANGED <<sessions, supabase, FULFILLMENT_WEBHOOK_URL, sinkLog, awaiting, script>>

\* the sink calls happen in a collection node only
RunInserts(id) == IF NodeOf(id) \in IntentNodes THEN GraphInserts(id) ELSE {"not executed"}
RunSchedules(id) == IF NodeOf(id) \in IntentNodes THEN GraphSchedules(id) ELSE {"not executed"}

RunSteps ==
    \E id \in RunIds : \E insert \in RunInserts(id), schedule \in RunSchedules(id) :
        RunNode(id, insert, schedule)

RunNext ==
    \/ \E id \in RunIds, message \in RunMessages : Submit(id, message)
    \/ RunSteps

\* a run that can execute a node does so
RunSpec == Init /\ [][RunNext]_vars /\ WF_vars(RunSteps)

\* C24: every run of the workflow reaches END.
C24_RunsReachEnd ==
    \A id \in RunIds : (NodeOf(id) # "END") ~> (NodeOf(id) = "END")

---------------------------------------------------------------------------
(* C25 *)

\* user_message holds one of the keywords
HasKeyword(keywords, user_message) == \E k \in keywords : keyword_in(k, user_message)

\* C25: when router_node has run on a message, the intent is scheduled_food
\* exactly if the lower-cased message holds no urgent keyword and a
\* scheduling keyword, ngo_referral exactly if it holds neither and an ngo
\* keyword, and immediate_food in every other case; the run is at the
\* node of that intent; and at all times a conversation with an intent has
\* the assistance_type of that intent.
C25_RouterPriority ==
    \A id \in DOMAIN graphs :
        LET c == graphs[id]
            text == lower(c.content)
            urgent == HasKeyword(urgent_keywords, text)
            scheduled == HasKeyword(scheduled_keywords, text)
            ngo == HasKeyword(ngo_keywords, text)
        IN  /\ c.intent # None =>
                  /\ Val(c.intent) \in IntentNodes
                  /\ c.assistance_type =
                        Some(CASE Val(c.intent) = "immediate_food" -> "immediate"
                               [] Val(c.intent) = "scheduled_food" -> "scheduled"
                               [] Val(c.intent) = "ngo_referral" -> "ngo_referral")
            /\ (last.kind = "node" /\ last.session_id = id /\ last.message = "router") =>
                  /\ c.intent # None
                  /\ (Val(c.intent) = "scheduled_food") <=> (~urgent /\ scheduled)
                  /\ (Val(c.intent) = "ngo_referral") <=> (~urgent /\ ~scheduled /\ ngo)
                  /\ (Val(c.intent) = "immediate_food") <=>
                        (urgent \/ (~scheduled /\ ~ngo))
                  /\ c.node = Val(c.intent)

C25_Witness ==
    /\ last.kind = "node" /\ last.message = "router"
    /\ \E id \in DOMAIN graphs :
          /\ graphs[id].content = "Support me Tomorrow"
          /\ graphs[id].node = "scheduled_food"
          /\ graphs[id].assistance_type = Some("scheduled")

---------------------------------------------------------------------------
(* C26 *)

\* C26: while a handler of a session is suspended in the POST of the
\* notification, the session is completed; a request for the same session
\* that is handled meanwhile gets the 'already processed' reply, calls no
\* sink and leaves the session as the suspended handler left it; no
\* session has more than one storage call or more than one notification;
\* and no step changes a session that has a suspended handler, so that the
\* session ends as if the two requests had been handled one after the other.
C26_ConcurrentSameSession ==
    /\ [](\A id \in DOMAIN sessions :
            /\ Cardinality(CallsOf(sinkLog, "storage", id)) <= 1
            /\ Cardinality(CallsOf(sinkLog, "notification", id)) <= 1
            /\ id \in awaiting => sessions[id].step = "completed"
            /\ (Requested(id) /\ id \in awaiting /\ last.calls = 0) =>
                  /\ last.reply = Some(AlreadyProcessedReply)
                  /\ last.before = Some(sessions[id]))
    /\ [][\A id \in awaiting : sessions'[id] = sessions[id]]_vars

C26_Witness ==
    \E id \in awaiting :
        /\ Requested(id)
        /\ last.before = Some(sessions[id])
        /\ sessions[id].step = "completed"
        /\ last.reply = Some(AlreadyProcessedReply)
        /\ last.message # ""

---------------------------------------------------------------------------
(* C27 *)

\* the store cut down to the entry of id
OnlyEntry(store, id) == [x \in (DOMAIN store \cap {id}) |-> store[x]]

\* C27: a step taken for one session leaves every other entry of the
\* store as it was and removes none; what a request does to its session is
\* what it would do if the store held that entry alone; and every record
\* handed to a sink carries the session_id and the fields of the session
\* the call was made for.
C27_OnlyOwnSession ==
    /\ [](\A k \in 1..Len(sinkLog) :
            LET call == sinkLog[k]
                s == sessions[call.session_id]
            IN  /\ call.session_id \in DOMAIN sessions
                /\ call.record.session_id = call.session_id
                /\ call.record.person_name = s.person_name
                /\ call.record.age = s.age
                /\ call.record.location = s.location
                /\ call.record.food_requirement = s.food_requirement
                /\ s.step = "completed")
    /\ [][ /\ DOMAIN sessions \subseteq DOMAIN sessions'
           /\ \A id \in DOMAIN sessions :
                 last'.session_id # id => sessions'[id] = sessions[id]
           /\ \A k \in (Len(sinkLog) + 1)..Len(sinkLog') :
                 sinkLog'[k].session_id = last'.session_id
           /\ last'.kind = "request" =>
                 \E insert \in InsertOutcomes \cup {"not executed"} :
                    sessions'[last'.session_id] =
                       handle(OnlyEntry(sessions, last'.session_id), last'.session_id,
                              user_msg_original_of[last'.message],
                              user_msg_of[last'.message], insert).session
      ]_vars

C27_Witness ==
    \E id \in awaiting, other \in DOMAIN sessions :
        /\ other # id
        /\ RequestedIn(other, "start")
        /\ last.before # None
        /\ sessions[other].step = "asking_name"
        /\ \E k \in 1..Len(sinkLog) :
              /\ sinkLog[k].sink = "notification"
              /\ sinkLog[k].record.session_id = id
              /\ sinkLog[k].record.person_name = sessions[id].person_name

---------------------------------------------------------------------------
(* C28 *)

\* C28: in every session person_name is a non-empty text from asking_age
\* on, age is set from asking_location on, location is a non-empty text
\* from asking_food_requirement on and food_requirement is a non-empty text
\* at completed; no request is answered with the 'some information is
\* missing' reply, and the request that completes a session calls the
\* storage sink.
C28_FieldsMatchStep ==
    /\ last.reply # Some(MissingInfoReply)
    /\ \A id \in DOMAIN sessions :
          LET s == sessions[id] IN
          /\ StepRank(s.step) >= StepRank("asking_age") => Truthy(s.person_name)
          /\ StepRank(s.step) >= StepRank("asking_location") => s.age # None
          /\ StepRank(s.step) >= StepRank("asking_food_requirement") => Truthy(s.location)
          /\ s.step = "completed" => Truthy(s.food_requirement)
          /\ RequestedIn(id, "asking_food_requirement") =>
                /\ s.step = "completed"
                /\ last.calls >= 1
                /\ \E k \in 1..Len(sinkLog) :
                      sinkLog[k].sink = "storage" /\ sinkLog[k].session_id = id

C28_Witness ==
    \E id \in DOMAIN sessions :
        /\ RequestedIn(id, "asking_food_requirement")
        /\ Trimmed = ""
        /\ sessions[id].person_name = Some("User")
        /\ sessions[id].age = Some(DefaultAge)
        /\ sessions[id].location = Some("Not specified")
        /\ sessions[id].food_requirement = Some("General food assistance")

====
